---- MODULE Spec2Model ----
(***************************************************************************)
(* movmux.py: MediaFile (getBestAudioTrack, getTrack), Muxer (addTrack,    *)
(* addLangAudioTrack, getMkvmergeCmd, getFfmpegCmd, start) and main.       *)
(*                                                                         *)
(* A Python str is a sequence of pieces (characters, or a whole literal    *)
(* for the fixed words of a command).  A mediainfo track dict is a record  *)
(* whose DOMAIN is the set of keys the probe reported; "type" stands for   *)
(* the key "@type".  The track lists of the Muxer hold references to the   *)
(* dicts of mediainfo["media"]["track"], modelled as indices into          *)
(* mediainfo, so that addTrack's in-place writes are seen through every    *)
(* reference.  An exception is the name of its class in an err field.      *)
(***************************************************************************)
EXTENDS Integers, Sequences, FiniteSets, TLC

VARIABLES
    mediainfo,      \* MediaFile.mediainfo["media"]["track"]
    impl,           \* Muxer.impl
    videotracks,    \* Muxer.videotracks
    audiotracks,    \* Muxer.audiotracks
    texttracks,     \* Muxer.texttracks
    pc,             \* where main (or the function under test) stands
    last,           \* the call that was made last, its arguments and outcome
    cmd,            \* the command Muxer.start obtained
    ncalls          \* admissions main has issued so far

vars == <<mediainfo, impl, videotracks, audiotracks, texttracks, pc, last, cmd, ncalls>>

\* ------------------------------------------------------------------ bounds

MaxTracks == 2      \* streams in the container that was probed
MaxCalls == 2       \* --tracks tokens plus --langs codes of one run
MaxAudio == 2       \* audio tracks of a catalog handed to getBestAudioTrack
MaxListed == 3      \* tracks of a catalog handed to getTrack
MaxId == 3          \* |id| of a getTrack query

\* ------------------------------------------------------------ Python str

None == "none"      \* no exception

Digit == <<"0", "1", "2", "3", "4", "5", "6", "7", "8", "9">>

IsDigit(c) == \E d \in 1..10 : Digit[d] = c

DigitVal(c) == (CHOOSE d \in 1..10 : Digit[d] = c) - 1

RECURSIVE lstrip(_, _)
lstrip(s, c) == IF s # <<>> /\ Head(s) = c THEN lstrip(Tail(s), c) ELSE s

RECURSIVE rstrip(_, _)
rstrip(s, c) ==
    IF s # <<>> /\ s[Len(s)] = c THEN rstrip(SubSeq(s, 1, Len(s) - 1), c) ELSE s

endswith(s, c) == s # <<>> /\ s[Len(s)] = c

RECURSIVE DigitsVal(_, _)
DigitsVal(s, acc) ==
    IF s = <<>> THEN acc ELSE DigitsVal(Tail(s), 10 * acc + DigitVal(Head(s)))

\* int(s): surrounding blanks dropped, one optional sign, then digits only
int(s) ==
    LET t == rstrip(lstrip(s, " "), " ")
        neg == t # <<>> /\ Head(t) = "-"
        u == IF t # <<>> /\ Head(t) \in {"-", "+"} THEN Tail(t) ELSE t
    IN  IF u # <<>> /\ \A i \in 1..Len(u) : IsDigit(u[i])
        THEN [err |-> None, val |-> IF neg THEN 0 - DigitsVal(u, 0) ELSE DigitsVal(u, 0)]
        ELSE [err |-> "ValueError", val |-> 0]

RECURSIVE str(_)
str(n) == IF n < 10 THEN <<Digit[n + 1]>> ELSE str(n \div 10) \o <<Digit[(n % 10) + 1]>>

RECURSIVE split(_, _)
split(s, sep) ==
    IF \E i \in 1..Len(s) : s[i] = sep
    THEN LET i == CHOOSE k \in 1..Len(s) : s[k] = sep /\ \A j \in 1..(k - 1) : s[j] # sep
         IN  <<SubSeq(s, 1, i - 1)>> \o split(SubSeq(s, i + 1, Len(s)), sep)
    ELSE <<s>>

RECURSIVE join(_, _)
join(sep, parts) ==
    IF parts = <<>> THEN <<>>
    ELSE IF Len(parts) = 1 THEN parts[1]
    ELSE parts[1] \o <<sep>> \o join(sep, Tail(parts))

\* ----------------------------------------------------- MediaFile queries

HasKey(track, key) == key \in DOMAIN track

Indices(mi) == [i \in 1..Len(mi) |-> i]

Channels(mi, i) == int(mi[i].Channels).val

BitRate(mi, i) == int(split(mi[i].BitRate, "/")[1]).val

\* lines 51-55, from maxchannels
RECURSIVE MaxChannels(_, _, _)
MaxChannels(mi, tracks, maxchannels) ==
    IF tracks = <<>> THEN maxchannels
    ELSE MaxChannels(mi, Tail(tracks),
                     IF Channels(mi, Head(tracks)) > maxchannels
                     THEN Channels(mi, Head(tracks)) ELSE maxchannels)

\* lines 77-83, from maxbitrate
RECURSIVE MaxBitRate(_, _, _)
MaxBitRate(mi, tracks, maxbitrate) ==
    IF tracks = <<>> THEN maxbitrate
    ELSE MaxBitRate(mi, Tail(tracks),
                    IF BitRate(mi, Head(tracks)) > maxbitrate
                    THEN BitRate(mi, Head(tracks)) ELSE maxbitrate)

\* "if found: tracks = found"
Refined(found, tracks) == IF found # <<>> THEN found ELSE tracks

\* lines 50-62: the channel step; the loop of lines 52-55 reads every
\* candidate's Channels outside the try
ByChannels(mi, tracks) ==
    IF \E k \in 1..Len(tracks) : ~HasKey(mi[tracks[k]], "Channels")
    THEN [err |-> "KeyError", tracks |-> tracks]
    ELSE [err |-> None,
          tracks |-> Refined(SelectSeq(tracks, LAMBDA i :
                                 Channels(mi, i) = MaxChannels(mi, tracks, 0)),
                             tracks)]

\* lines 66-72: the comprehension is inside the try, a KeyError empties found
ByLossless(mi, tracks) ==
    IF \E k \in 1..Len(tracks) : ~HasKey(mi[tracks[k]], "Compression_Mode")
    THEN tracks
    ELSE Refined(SelectSeq(tracks, LAMBDA i : mi[i].Compression_Mode = "Lossless"), tracks)

\* lines 76-90: the loop of lines 78-83 reads every candidate's BitRate
\* outside the try
ByBitRate(mi, tracks) ==
    IF \E k \in 1..Len(tracks) : ~HasKey(mi[tracks[k]], "BitRate")
    THEN [err |-> "KeyError", tracks |-> tracks]
    ELSE [err |-> None,
          tracks |-> Refined(SelectSeq(tracks, LAMBDA i :
                                 BitRate(mi, i) = MaxBitRate(mi, tracks, 0)),
                             tracks)]

Found(i) == [err |-> None, track |-> i]

NoTrack(e) == [err |-> e, track |-> 0]

\* lines 91-95
AfterBitRate(b) == IF b.err # None THEN NoTrack(b.err) ELSE Found(b.tracks[1])

\* lines 73-74, then the bit rate step
AfterLossless(mi, tracks) ==
    IF Len(tracks) = 1 THEN Found(tracks[1]) ELSE AfterBitRate(ByBitRate(mi, tracks))

\* lines 63-64, then the lossless step
AfterChannels(mi, c) ==
    IF c.err # None THEN NoTrack(c.err)
    ELSE IF Len(c.tracks) = 1 THEN Found(c.tracks[1])
    ELSE AfterLossless(mi, ByLossless(mi, c.tracks))

\* lines 46-95: the cascade over the candidates
BestOf(mi, tracks) ==
    IF tracks = <<>> THEN NoTrack("TrackNotFoundError")
    ELSE AfterChannels(mi, ByChannels(mi, tracks))

\* line 41
AudioTracks(mi) == SelectSeq(Indices(mi), LAMBDA i : mi[i].type = "Audio")

\* MediaFile.getBestAudioTrack(language); language = <<>> is the default "".
\* Line 44 reads Language of every audio track.
getBestAudioTrack(mi, language) ==
    IF language = <<>> THEN BestOf(mi, AudioTracks(mi))
    ELSE IF Len(language) # 2 THEN NoTrack("ValueError")
    ELSE IF \E i \in 1..Len(mi) : mi[i].type = "Audio" /\ ~HasKey(mi[i], "Language")
    THEN NoTrack("KeyError")
    ELSE BestOf(mi, SelectSeq(AudioTracks(mi), LAMBDA i : mi[i].Language = language))

\* lines 107-111: the list getTrack indexes
TrackView(mi, tracktype) ==
    IF tracktype # ""
    THEN SelectSeq(Indices(mi), LAMBDA i : mi[i].type = tracktype)
    ELSE SelectSeq(Indices(mi), LAMBDA i : HasKey(mi[i], "StreamOrder"))

\* lines 113-117: tracks[id] is Python indexing, a negative id counts from
\* the end
PyIndex(tracks, id) ==
    IF 0 <= id /\ id < Len(tracks) THEN [err |-> None, track |-> tracks[id + 1]]
    ELSE IF id < 0 /\ 0 - id <= Len(tracks)
    THEN [err |-> None, track |-> tracks[Len(tracks) + id + 1]]
    ELSE [err |-> "TrackNotFoundError", track |-> 0]

\* MediaFile.getTrack(id, tracktype)
getTrack(mi, id, tracktype) ==
    IF tracktype \notin {"", "Video", "Audio", "Text"}
    THEN [err |-> "ValueError", track |-> 0]
    ELSE PyIndex(TrackView(mi, tracktype), id)

\* ------------------------------------------------------------------ Muxer

\* the Muxer's fields together with the catalog its track lists refer into
Muxer == [mediainfo |-> mediainfo, videotracks |-> videotracks,
          audiotracks |-> audiotracks, texttracks |-> texttracks]

Raise(m, e) == [err |-> e, m |-> m]

Return(m) == [err |-> None, m |-> m]

\* lines 161-166: the letter before the colon; any other word is passed on
\* as it is and getTrack rejects it
TrackTypeOf(word) ==
    IF word = <<"v">> THEN "Video"
    ELSE IF word = <<"a">> THEN "Audio"
    ELSE IF word = <<"s">> THEN "Text"
    ELSE IF word = <<>> THEN ""
    ELSE "unknown"

\* lines 159-167: the token is not an integer: <type>:<id>
ParseTyped(parts, forced) ==
    IF Len(parts) # 2 \/ int(parts[2]).err # None
    THEN [err |-> "ValueError", forced |-> forced, tracktype |-> "", id |-> 0]
    ELSE [err |-> None, forced |-> forced, tracktype |-> TrackTypeOf(parts[1]),
          id |-> int(parts[2]).val]

\* lines 155-167
ParseStripped(s, forced) ==
    IF int(s).err = None
    THEN [err |-> None, forced |-> forced, tracktype |-> "", id |-> int(s).val]
    ELSE ParseTyped(split(s, ":"), forced)

\* lines 147-167: [err, forced, tracktype, id] of a token
ParseId(id) == ParseStripped(rstrip(id, "!"), endswith(id, "!"))

\* lines 172-174: track["Default"] = "No"; track["Forced"] = ...
SetFlags(track, forced) ==
    [k \in DOMAIN track \cup {"Default", "Forced"} |->
        IF k = "Default" THEN "No"
        ELSE IF k = "Forced" THEN (IF forced THEN "Yes" ELSE "No")
        ELSE track[k]]

\* lines 176-184: append the reference to the list of the track's type
Admit(m, i) ==
    IF m.mediainfo[i].type = "Video"
    THEN Return([m EXCEPT !.videotracks = Append(@, i)])
    ELSE IF m.mediainfo[i].type = "Audio"
    THEN Return([m EXCEPT !.audiotracks = Append(@, i)])
    ELSE IF m.mediainfo[i].type = "Text"
    THEN Return([m EXCEPT !.texttracks = Append(@, i)])
    ELSE Raise(m, "TypeError")

\* lines 170-184: the track was found or not
AddFound(m, t, forced) ==
    IF t.err # None THEN Raise(m, t.err)
    ELSE Admit([m EXCEPT !.mediainfo[t.track] = SetFlags(@, forced)], t.track)

\* lines 169-184
AddParsed(m, p) ==
    IF p.err # None THEN Raise(m, p.err)
    ELSE AddFound(m, getTrack(m.mediainfo, p.id, p.tracktype), p.forced)

\* Muxer.addTrack(id)
addTrack(m, id) == AddParsed(m, ParseId(id))

any == <<"a", "n", "y">>

\* lines 204-207: the first selected audio track that either lacks Language
\* (KeyError) or has the language (return); 0 when the loop runs through
FirstOfLanguage(m, language) ==
    LET hit == {k \in 1..Len(m.audiotracks) :
                    \/ ~HasKey(m.mediainfo[m.audiotracks[k]], "Language")
                    \/ m.mediainfo[m.audiotracks[k]].Language = language}
    IN  IF hit = {} THEN 0 ELSE CHOOSE k \in hit : \A j \in hit : k <= j

\* lines 211-213: TrackNotFoundError of either call is caught
Caught(m, r, optional) ==
    IF r.err # "TrackNotFoundError" THEN r
    ELSE IF optional THEN Return(m)
    ELSE Raise(m, "TrackNotFoundError")

\* line 210: the best track's StreamOrder is handed to addTrack as a token
AddBest(m, b) ==
    IF b.err # None THEN Raise(m, b.err)
    ELSE IF ~HasKey(m.mediainfo[b.track], "StreamOrder") THEN Raise(m, "KeyError")
    ELSE addTrack(m, m.mediainfo[b.track].StreamOrder)

\* lines 204-213
AddLanguage(m, language, optional, k) ==
    IF k # 0
    THEN IF HasKey(m.mediainfo[m.audiotracks[k]], "Language")
         THEN Return(m)
         ELSE Raise(m, "KeyError")
    ELSE Caught(m, AddBest(m, getBestAudioTrack(m.mediainfo, language)), optional)

\* lines 190-192
AddAny(m, b) ==
    IF b.err # None THEN Raise(m, b.err)
    ELSE Return([m EXCEPT !.audiotracks = Append(@, b.track)])

\* Muxer.addLangAudioTrack(language)
addLangAudioTrack(m, language) ==
    IF language = any
    THEN IF m.audiotracks = <<>>
         THEN AddAny(m, getBestAudioTrack(m.mediainfo, <<>>))
         ELSE Return(m)
    ELSE IF Len(language) = 2
    THEN AddLanguage(m, language, FALSE, FirstOfLanguage(m, language))
    ELSE IF Len(language) = 3 /\ language[3] = "?"
    THEN AddLanguage(m, SubSeq(language, 1, 2), TRUE,
                     FirstOfLanguage(m, SubSeq(language, 1, 2)))
    ELSE Raise(m, "ValueError")

\* lines 217/274: the video list, or the first Video track of the catalog
ImplicitVideo(t) == [err |-> t.err, tracks |-> IF t.err = None THEN <<t.track>> ELSE <<>>]

SynthVideo(m) ==
    IF m.videotracks # <<>> THEN [err |-> None, tracks |-> m.videotracks]
    ELSE ImplicitVideo(getTrack(m.mediainfo, 0, "Video"))

Lit(word) == <<word>>

IsYes(track, key) == track[key] = "Yes"

StreamOrders(m, tracks) == [k \in 1..Len(tracks) |-> m.mediainfo[tracks[k]].StreamOrder]

\* lines 228-231 and 280-283
TrackOrder(m, tracks) ==
    [k \in 1..Len(tracks) |-> Lit("0:") \o m.mediainfo[tracks[k]].StreamOrder]

\* lines 261-264: the two flag options of one track
MkvFlag(track) ==
    <<Lit("--default-track-flag"),
      track.StreamOrder \o Lit(IF IsYes(track, "Default") THEN ":1" ELSE ":0"),
      Lit("--forced-display-flag"),
      track.StreamOrder \o Lit(IF IsYes(track, "Forced") THEN ":1" ELSE ":0")>>

\* lines 260-264: of every track, in list order
RECURSIVE MkvFlags(_, _)
MkvFlags(m, tracks) ==
    IF tracks = <<>> THEN <<>>
    ELSE MkvFlag(m.mediainfo[Head(tracks)]) \o MkvFlags(m, Tail(tracks))

\* lines 244-257: keep these ids of a type, or drop the type
MkvKeep(m, tracks, keep, drop) ==
    IF tracks # <<>> THEN <<Lit(keep), join(",", StreamOrders(m, tracks))>>
    ELSE <<Lit(drop)>>

\* lines 223-231 and 260-264, lines 281-283 and 294-304: a key that either
\* synthesis reads of every track it lists is missing
MissingKey(m, tracks) ==
    \E k \in 1..Len(tracks) :
        \E key \in {"StreamOrder", "Default", "Forced"} :
            ~HasKey(m.mediainfo[tracks[k]], key)

\* lines 219-270
MkvmergeCmd(m, v) ==
    IF v.err # None THEN [err |-> v.err, cmd |-> <<>>]
    ELSE IF MissingKey(m, v.tracks \o m.audiotracks \o m.texttracks)
    THEN [err |-> "KeyError", cmd |-> <<>>]
    ELSE [err |-> None,
          cmd |-> <<Lit("mkvmerge"), Lit("--track-order"),
                    join(",", TrackOrder(m, v.tracks \o m.audiotracks \o m.texttracks)),
                    Lit("-o"), Lit("outfile")>>
                  \o MkvKeep(m, v.tracks, "--video-tracks", "--no-video")
                  \o MkvKeep(m, m.audiotracks, "--audio-tracks", "--no-audio")
                  \o MkvKeep(m, m.texttracks, "--subtitle-tracks", "--no-subtitles")
                  \o MkvFlags(m, v.tracks \o m.audiotracks \o m.texttracks)
                  \o <<Lit("infile")>>]

\* Muxer.getMkvmergeCmd()
getMkvmergeCmd(m) == MkvmergeCmd(m, SynthVideo(m))

\* Disposition without lines 303-304: the forced tag is never added
DispositionDefaultOnly(track) ==
    IF IsYes(track, "Default") THEN Lit("default") ELSE Lit("0")

\* lines 300-308: the disposition value of one track
Disposition(track) ==
    IF IsYes(track, "Default") /\ IsYes(track, "Forced")
    THEN join("+", <<Lit("default"), Lit("forced")>>)
    ELSE IF IsYes(track, "Default") THEN Lit("default")
    ELSE IF IsYes(track, "Forced") THEN Lit("forced")
    ELSE Lit("0")

\* lines 296-308: -map and -disposition:<outid> of one track
FfmpegMap(track, outid) ==
    <<Lit("-map"), Lit("0:") \o track.StreamOrder,
      Lit("-disposition:") \o str(outid), Disposition(track)>>

\* lines 293-310: of every track, in list order
RECURSIVE FfmpegMaps(_, _, _)
FfmpegMaps(m, tracks, outid) ==
    IF tracks = <<>> THEN <<>>
    ELSE FfmpegMap(m.mediainfo[Head(tracks)], outid) \o FfmpegMaps(m, Tail(tracks), outid + 1)

\* lines 276-318
FfmpegCmd(m, v) ==
    IF v.err # None THEN [err |-> v.err, cmd |-> <<>>]
    ELSE IF MissingKey(m, v.tracks \o m.audiotracks \o m.texttracks)
    THEN [err |-> "KeyError", cmd |-> <<>>]
    ELSE [err |-> None,
          cmd |-> <<Lit("ffmpeg"), Lit("-analyzeduration"), Lit("200M"),
                    Lit("-probesize"), Lit("1G"), Lit("-i"), Lit("infile"),
                    Lit("-c"), Lit("copy")>>
                  \o FfmpegMaps(m, v.tracks \o m.audiotracks \o m.texttracks, 0)
                  \o <<Lit("-start_at_zero"), Lit("-copyts"),
                       Lit("-avoid_negative_ts"), Lit("disabled"), Lit("outfile")>>]

\* Muxer.getFfmpegCmd()
getFfmpegCmd(m) == FfmpegCmd(m, SynthVideo(m))

\* ------------------------------------------------------------ the inputs

en == <<"e", "n">>

ja == <<"j", "a">>

\* what the probe reports of a stream besides its StreamOrder
Streams ==
    { [type |-> "Video", Default |-> "Yes", Forced |-> "No"],
      [type |-> "Video"],
      [type |-> "Audio", Language |-> en, Channels |-> <<"6">>,
       Compression_Mode |-> "Lossy", BitRate |-> <<"6", "4", "0">>,
       Default |-> "Yes", Forced |-> "Yes"],
      [type |-> "Audio", Language |-> en, Channels |-> <<"2">>,
       Compression_Mode |-> "Lossy", BitRate |-> <<"1", "2", "8">>],
      [type |-> "Audio", Channels |-> <<"2">>, Compression_Mode |-> "Lossless",
       BitRate |-> <<"6", "4", "0">>, Default |-> "No", Forced |-> "No"],
      [type |-> "Text", Language |-> en, Default |-> "Yes", Forced |-> "No"] }

Containers == UNION {[1..n -> Streams] : n \in 1..MaxTracks}

\* MediaFile.__init__, lines 27-28: mediainfo lists a General track without
\* StreamOrder, then the streams grouped by kind, each with its index in the
\* container as StreamOrder
Probe(container) ==
    LET Ordered(i) == container[i] @@ [StreamOrder |-> str(i - 1)]
        OfKind(kind) == SelectSeq(Indices(container), LAMBDA i : container[i].type = kind)
        order == OfKind("Video") \o OfKind("Audio") \o OfKind("Text")
    IN  <<[type |-> "General"]>> \o [k \in 1..Len(order) |-> Ordered(order[k])]

\* --tracks tokens: global or typed ordinal, from the end too, forced or not
Ordinals == {str(n) : n \in 0..(MaxTracks - 1)} \cup {<<"-", "1">>}

Tokens ==
    {prefix \o n \o bang :
        prefix \in {<<>>, <<"v", ":">>, <<"a", ":">>, <<"s", ":">>},
        n \in Ordinals, bang \in {<<>>, <<"!">>}}
    \cup {<<"x", ":", "0">>, <<"v">>}

\* --langs codes
Codes == {any, en, en \o <<"?">>, ja, ja \o <<"?">>, <<"e", "n", "g">>}

\* ------------------------------------------------------------------- main

\* Muxer.__init__, lines 139-143
Init ==
    /\ mediainfo \in {Probe(c) : c \in Containers}
    /\ impl \in {"mkvmerge", "ffmpeg"}
    /\ videotracks = <<>>
    /\ audiotracks = <<>>
    /\ texttracks = <<>>
    /\ pc = "tracks"
    /\ last = [op |-> "init"]
    /\ cmd = <<>>
    /\ ncalls = 0

\* the Muxer after a call; an exception leaves main
Becomes(r, stay) ==
    /\ mediainfo' = r.m.mediainfo
    /\ videotracks' = r.m.videotracks
    /\ audiotracks' = r.m.audiotracks
    /\ texttracks' = r.m.texttracks
    /\ pc' = IF r.err = None THEN stay ELSE "failed"

AddedTrack(id, r) ==
    /\ Becomes(r, "tracks")
    /\ last' = [op |-> "addTrack", id |-> id, err |-> r.err]

\* main, lines 369-370: muxer.addTrack(track)
AddTrack(id) ==
    /\ pc = "tracks"
    /\ ncalls < MaxCalls
    /\ AddedTrack(id, addTrack(Muxer, id))
    /\ ncalls' = ncalls + 1
    /\ UNCHANGED <<impl, cmd>>

AddedLang(language, r) ==
    /\ Becomes(r, "langs")
    /\ last' = [op |-> "addLangAudioTrack", language |-> language, err |-> r.err]

\* main, lines 374-376: muxer.addLangAudioTrack(lang), after the last token
AddLangAudioTrack(language) ==
    /\ pc \in {"tracks", "langs"}
    /\ ncalls < MaxCalls
    /\ AddedLang(language, addLangAudioTrack(Muxer, language))
    /\ ncalls' = ncalls + 1
    /\ UNCHANGED <<impl, cmd>>

Started(r) ==
    /\ cmd' = r.cmd
    /\ pc' = IF r.err = None THEN "done" ELSE "failed"
    /\ last' = [op |-> "start", err |-> r.err]

\* Muxer.start, lines 320-329, called by main at line 379
Start ==
    /\ pc \in {"tracks", "langs"}
    /\ Started(IF impl = "mkvmerge" THEN getMkvmergeCmd(Muxer) ELSE getFfmpegCmd(Muxer))
    /\ UNCHANGED <<mediainfo, impl, videotracks, audiotracks, texttracks, ncalls>>

Next ==
    \/ \E id \in Tokens : AddTrack(id)
    \/ \E language \in Codes : AddLangAudioTrack(language)
    \/ Start

Spec == Init /\ [][Next]_vars

\* ------------------------------------------- getBestAudioTrack on its own

NoKeys == [key \in {} |-> ""]

\* an audio track of which any of the four attributes may be missing
AudioTrackDicts ==
    {[type |-> "Audio"] @@ l @@ c @@ m @@ b :
        l \in {[Language |-> en], [Language |-> ja], NoKeys},
        c \in {[Channels |-> <<"2">>], [Channels |-> <<"6">>], NoKeys},
        m \in {[Compression_Mode |-> "Lossy"], [Compression_Mode |-> "Lossless"], NoKeys},
        b \in {[BitRate |-> <<"9">>], [BitRate |-> <<"5", " ", "/", " ", "9">>], NoKeys}}

InitBest ==
    /\ mediainfo \in UNION {[1..n -> AudioTrackDicts] : n \in 1..MaxAudio}
    /\ impl = "ffmpeg"
    /\ videotracks = <<>>
    /\ audiotracks = <<>>
    /\ texttracks = <<>>
    /\ pc = "query"
    /\ last = [op |-> "init"]
    /\ cmd = <<>>
    /\ ncalls = 0

Queried(language, b) ==
    last' = [op |-> "getBestAudioTrack", language |-> language, err |-> b.err,
             track |-> b.track]

\* one call of MediaFile.getBestAudioTrack(language)
BestAudioTrack(language) ==
    /\ pc = "query"
    /\ Queried(language, getBestAudioTrack(mediainfo, language))
    /\ pc' = "done"
    /\ UNCHANGED <<mediainfo, impl, videotracks, audiotracks, texttracks, cmd, ncalls>>

NextBest == \E language \in {<<>>, en, ja} : BestAudioTrack(language)

SpecBest == InitBest /\ [][NextBest]_vars

\* ---------------------------------------------------- getTrack on its own

\* tracks of any kind in any order, with or without StreamOrder
Listing(kinds, ordered) ==
    [i \in 1..Len(kinds) |->
        IF i \in ordered /\ kinds[i] # "General"
        THEN [type |-> kinds[i], StreamOrder |-> str(i - 1)]
        ELSE [type |-> kinds[i]]]

InitTrack ==
    /\ mediainfo \in {Listing(kinds, ordered) :
                        kinds \in UNION {[1..n -> {"General", "Video", "Audio", "Text"}] :
                                            n \in 0..MaxListed},
                        ordered \in SUBSET (1..MaxListed)}
    /\ impl = "ffmpeg"
    /\ videotracks = <<>>
    /\ audiotracks = <<>>
    /\ texttracks = <<>>
    /\ pc = "query"
    /\ last = [op |-> "init"]
    /\ cmd = <<>>
    /\ ncalls = 0

Indexed(id, tracktype, t) ==
    last' = [op |-> "getTrack", id |-> id, tracktype |-> tracktype, err |-> t.err,
             track |-> t.track]

\* one call of MediaFile.getTrack(id, tracktype)
Track(id, tracktype) ==
    /\ pc = "query"
    /\ Indexed(id, tracktype, getTrack(mediainfo, id, tracktype))
    /\ pc' = "done"
    /\ UNCHANGED <<mediainfo, impl, videotracks, audiotracks, texttracks, cmd, ncalls>>

NextTrack ==
    \E id \in (0 - MaxId)..MaxId, tracktype \in {"", "Video", "Audio", "Text", "Menu"} :
        Track(id, tracktype)

SpecTrack == InitTrack /\ [][NextTrack]_vars

\* ------------------------------------------- what a command says to do

\* the streams the keep-list command orders: the ids of --track-order
RECURSIVE ArgAfter(_, _)
ArgAfter(c, option) ==
    IF Len(c) < 2 THEN <<>>
    ELSE IF Head(c) = Lit(option) THEN c[2]
    ELSE ArgAfter(Tail(c), option)

Ids(list) == IF list = <<>> THEN <<>> ELSE split(list, ",")

MkvOrder(c) ==
    LET entries == Ids(ArgAfter(c, "--track-order"))
    IN  [k \in 1..Len(entries) |-> Tail(entries[k])]

\* the streams the keep-list command keeps, video then audio then subtitles
MkvKept(c) ==
    Ids(ArgAfter(c, "--video-tracks")) \o Ids(ArgAfter(c, "--audio-tracks"))
    \o Ids(ArgAfter(c, "--subtitle-tracks"))

\* [id, default, forced] of every stream the keep-list command flags
RECURSIVE MkvMarks(_)
MkvMarks(c) ==
    IF Len(c) < 4 THEN <<>>
    ELSE IF c[1] = Lit("--default-track-flag") /\ c[3] = Lit("--forced-display-flag")
    THEN <<[id |-> SubSeq(c[2], 1, Len(c[2]) - 1),
            default |-> c[2][Len(c[2])] = ":1",
            forced |-> c[4][Len(c[4])] = ":1"]>> \o MkvMarks(SubSeq(c, 5, Len(c)))
    ELSE MkvMarks(Tail(c))

\* [id, default, forced] of every stream the map-list command maps
RECURSIVE FfmpegMarks(_)
FfmpegMarks(c) ==
    IF Len(c) < 4 THEN <<>>
    ELSE IF c[1] = Lit("-map")
    THEN <<[id |-> Tail(c[2]),
            default |-> \E p \in 1..Len(c[4]) : c[4][p] = "default",
            forced |-> \E p \in 1..Len(c[4]) : c[4][p] = "forced"]>>
         \o FfmpegMarks(SubSeq(c, 5, Len(c)))
    ELSE FfmpegMarks(Tail(c))

Marks(c) == IF c # <<>> /\ c[1] = Lit("mkvmerge") THEN MkvMarks(c) ELSE FfmpegMarks(c)

\* the number of streams a command takes from the video, then the audio list
NVideo == IF videotracks = <<>> THEN 1 ELSE Len(videotracks)

NAudio == Len(audiotracks)

Defaults(marks, from, to) == {k \in from..to : marks[k].default}

HasLanguage(track, language) == HasKey(track, "Language") /\ track.Language = language

CatalogHasLanguage(language) ==
    \E i \in 1..Len(mediainfo) :
        mediainfo[i].type = "Audio" /\ HasLanguage(mediainfo[i], language)

SelectedHasLanguage(language) ==
    \E k \in 1..Len(audiotracks) : HasLanguage(mediainfo[audiotracks[k]], language)

\* ----------------------------------------------------------------- claims

C1_DefaultFlags(marks) ==
    /\ Cardinality(Defaults(marks, 1, NVideo)) = 1
    /\ Defaults(marks, NVideo + 1, NVideo + NAudio) \subseteq {NVideo + 1}
    /\ Defaults(marks, NVideo + NAudio + 1, Len(marks)) = {}

\* C1: after a synthesis that completed, the command marks exactly one video
\* track default, at most one audio track and then the first of the audio
\* list, and no subtitle track.
C1_DefaultFlagInvariant == pc = "done" => C1_DefaultFlags(Marks(cmd))

C2_SameStreams(a, b) ==
    /\ (a.err = None) <=> (b.err = None)
    /\ a.err = None =>
        /\ MkvMarks(a.cmd) = FfmpegMarks(b.cmd)
        /\ MkvOrder(a.cmd) = [k \in 1..Len(FfmpegMarks(b.cmd)) |-> FfmpegMarks(b.cmd)[k].id]
        /\ MkvKept(a.cmd) = MkvOrder(a.cmd)

\* C2: on every selection state the keep-list and the map-list command name
\* the same streams in the same video, audio, subtitle order with the same
\* default and forced marking, and one synthesis fails exactly when the
\* other does.
C2_BackendEquivalence == C2_SameStreams(getMkvmergeCmd(Muxer), getFfmpegCmd(Muxer))

\* C2 witness: a synthesis completed on a state with a video and an audio
\* stream, one marked default and forced, the other not forced.
C2_Witness ==
    /\ pc = "done"
    /\ audiotracks # <<>>
    /\ \E k \in 1..Len(Marks(cmd)) : Marks(cmd)[k].default /\ Marks(cmd)[k].forced
    /\ \E k \in 1..Len(Marks(cmd)) : ~Marks(cmd)[k].forced

C3_Admitted(language, b) ==
    IF SelectedHasLanguage(language) THEN audiotracks' = audiotracks
    ELSE b.err = None =>
            /\ audiotracks' = Append(audiotracks, b.track)
            /\ videotracks' = videotracks
            /\ texttracks' = texttracks

C3_Step ==
    (last'.op = "addLangAudioTrack" /\ Len(last'.language) = 2)
        => C3_Admitted(last'.language, getBestAudioTrack(mediainfo, last'.language))

\* C3: addLangAudioTrack of a 2-letter code leaves the audio list as it is
\* when a selected track has the language, and otherwise appends exactly the
\* track getBestAudioTrack(code) returns and leaves the video and subtitle
\* lists as they are.
C3_LanguageAdmission == [][C3_Step]_vars

C4_Step ==
    (/\ last'.op = "addLangAudioTrack"
     /\ last'.language # any
     /\ Len(last'.language) \in {2, 3}
     /\ ~CatalogHasLanguage(SubSeq(last'.language, 1, 2)))
        => /\ videotracks' = videotracks
           /\ audiotracks' = audiotracks
           /\ texttracks' = texttracks
           /\ IF Len(last'.language) = 2
              THEN last'.err = "TrackNotFoundError"
              ELSE last'.language[3] = "?" => last'.err = None /\ mediainfo' = mediainfo

\* C4: on a catalog without an audio track of language xx, "xx?" raises
\* nothing and changes neither the lists nor the flags, and "xx" raises
\* TrackNotFound and leaves the lists as they are.
C4_OptionalVersusRequired == [][C4_Step]_vars

C8_Selected == videotracks \o audiotracks \o texttracks

\* C8: no StreamOrder is selected twice over the three lists together.
C8_NoDuplicate ==
    \A j, k \in 1..Len(C8_Selected) :
        j # k => mediainfo[C8_Selected[j]].StreamOrder # mediainfo[C8_Selected[k]].StreamOrder

C9_Appended(b) ==
    b.err = None =>
        /\ audiotracks' = <<b.track>>
        /\ HasKey(mediainfo'[b.track], "Default")
        /\ HasKey(mediainfo'[b.track], "Forced")
        /\ mediainfo'[b.track].Forced = "No"

C9_Step ==
    (last'.op = "addLangAudioTrack" /\ last'.language = any)
        => IF audiotracks = <<>>
           THEN C9_Appended(getBestAudioTrack(mediainfo, <<>>))
           ELSE /\ audiotracks' = audiotracks
                /\ mediainfo' = mediainfo
                /\ last'.err = None

\* C9: "any" on an empty audio list appends exactly getBestAudioTrack() with
\* both flags defined and forced off; on a non-empty list it changes nothing.
C9_Any == [][C9_Step]_vars

C10_FirstVideo == CHOOSE i \in 1..Len(mediainfo) :
                    mediainfo[i].type = "Video"
                    /\ \A j \in 1..(i - 1) : mediainfo[j].type # "Video"

\* C10: a synthesis with an empty video list succeeds whenever the catalog
\* has a Video track, its first stream then being the first Video track, and
\* fails, with TrackNotFound, exactly when the catalog has none.
C10_ImplicitVideo ==
    (last.op = "start" /\ videotracks = <<>>)
        => IF \E i \in 1..Len(mediainfo) : mediainfo[i].type = "Video"
           THEN /\ last.err = None
                /\ Marks(cmd) # <<>>
                /\ HasKey(mediainfo[C10_FirstVideo], "StreamOrder")
                /\ Marks(cmd)[1].id = mediainfo[C10_FirstVideo].StreamOrder
           ELSE last.err = "TrackNotFoundError"

\* the candidates of a query: the audio tracks, of the language when given
Candidates(language) ==
    {i \in 1..Len(mediainfo) :
        /\ mediainfo[i].type = "Audio"
        /\ language # <<>> => HasLanguage(mediainfo[i], language)}

Complete(S) ==
    \A i \in S : /\ HasKey(mediainfo[i], "Channels")
                 /\ HasKey(mediainfo[i], "Compression_Mode")
                 /\ HasKey(mediainfo[i], "BitRate")

MostChannels(S) == {i \in S : \A j \in S : Channels(mediainfo, i) >= Channels(mediainfo, j)}

Lossless(S) == {i \in S : mediainfo[i].Compression_Mode = "Lossless"}

LosslessIfAny(S) == IF Lossless(S) # {} THEN Lossless(S) ELSE S

HighestBitRate(S) == {i \in S : \A j \in S : BitRate(mediainfo, i) >= BitRate(mediainfo, j)}

C5_Best(S) ==
    /\ last.err = None
    /\ last.track \in HighestBitRate(LosslessIfAny(MostChannels(S)))
    /\ \A j \in HighestBitRate(LosslessIfAny(MostChannels(S))) : last.track <= j

\* C5: with a non-empty candidate set that has every attribute, the track
\* returned has the most channels, is Lossless if a track with the most
\* channels is, has the highest bit rate among those, and is the first of
\* the catalog among the tracks that tie.
C5_TieBreak ==
    (/\ last.op = "getBestAudioTrack"
     /\ Candidates(last.language) # {}
     /\ Complete(Candidates(last.language)))
        => C5_Best(Candidates(last.language))

\* C6: with a non-empty candidate set getBestAudioTrack returns one of the
\* candidates whichever of Channels, Compression_Mode and BitRate are
\* missing, the only candidate when there is one.  (Stated for the catalogs
\* whose audio tracks all carry Language: the filter is not a refinement
\* step.)
C6_GracefulDegradation ==
    (/\ last.op = "getBestAudioTrack"
     /\ Candidates(last.language) # {}
     /\ \A i \in Candidates(<<>>) : HasKey(mediainfo[i], "Language"))
        => /\ last.err = None
           /\ last.track \in Candidates(last.language)

C7_View(tracktype) ==
    SelectSeq(Indices(mediainfo),
              LAMBDA i : IF tracktype = "" THEN HasKey(mediainfo[i], "StreamOrder")
                         ELSE mediainfo[i].type = tracktype)

\* C7: getTrack indexes the tracks of the type, or without a type the tracks
\* that have a StreamOrder; it returns the id-th of them for 0 <= id < their
\* number and fails with TrackNotFound for every other id.
C7_OrdinalLookup ==
    (last.op = "getTrack" /\ last.tracktype \in {"", "Video", "Audio", "Text"})
        => IF 0 <= last.id /\ last.id < Len(C7_View(last.tracktype))
           THEN last.err = None /\ last.track = C7_View(last.tracktype)[last.id + 1]
           ELSE last.err = "TrackNotFoundError"

\* ------------------------------------- what does hold next to C3 to C10

AllTagged ==
    \A i \in 1..Len(mediainfo) :
        mediainfo[i].type = "Audio" => HasKey(mediainfo[i], "Language")

\* every StreamOrder is the track's place among the tracks that have one
Aligned ==
    \A k \in 1..Len(TrackView(mediainfo, "")) :
        mediainfo[TrackView(mediainfo, "")[k]].StreamOrder = str(k - 1)

\* the language admission of C3 holds on the catalogs that are Aligned
AdmissionWhenAligned == [][Aligned => C3_Step]_vars

\* optional and required behave as in C4 on the catalogs that are AllTagged
OptionalWhenTagged == [][AllTagged => C4_Step]_vars

\* the tie-break of C5 holds when the filter finds Language on every audio track
TieBreakWhenTagged ==
    (last.op = "getBestAudioTrack" /\ (last.language # <<>> => AllTagged)) => C5_TieBreak

\* the lossless step alone degrades as C6 says
LosslessStepDegrades ==
    (/\ last.op = "getBestAudioTrack"
     /\ \A i \in Candidates(last.language) :
            HasKey(mediainfo[i], "Channels") /\ HasKey(mediainfo[i], "BitRate"))
        => C6_GracefulDegradation

\* the lookup of C7 holds for the ids that are not negative
LookupFromZero == (last.op = "getTrack" /\ last.id >= 0) => C7_OrdinalLookup

\* the synthesis of C10 fails in no other way than by a missing key
ImplicitVideoUnlessKeyError ==
    (last.op = "start" /\ last.err # "KeyError") => C10_ImplicitVideo

====
